---- MODULE Spec2Model ----
(***************************************************************************)
(* Flappy Kaho game engine (src/game.js, second IIFE, lines 401-1083).     *)
(*                                                                         *)
(* Numbers are exact fixed-point integers:                                 *)
(*   bird.velocity  in 1/200 px per frame   (GRAVITY*scaler = 3*dt/200)    *)
(*   bird.y         in 1/10000 px           (velocity*scaler = 3*v*dt/1e4) *)
(*   bird.rotation  in 1/25 degree          (2deg*scaler = 3*dt/25 deg)    *)
(*   pipe.x         in 1/25 px              (PIPE_SPEED*scaler = 3*dt/25)  *)
(*   bgOffsets      in 1/1000 px                                           *)
(*   dt, spawnTimer in ms; canvas sizes, pipe.y (gap top), score in units. *)
(* scaler = dt / (1000/60) = 3*dt/50.  The arithmetic is exact where the   *)
(* code rounds to doubles.  devicePixelRatio is 1 and layout boxes have    *)
(* whole sizes, so canvas.width / dpr is the layout width.                 *)
(***************************************************************************)
EXTENDS Integers, Sequences, FiniteSets

VARIABLES
    state,              \* 'READY' | 'PLAYING' | 'GAME_OVER'
    frames,             \* READY bobbing frame counter
    sinceLastTime,      \* timestamp of the next frame start minus lastTime, before the frame delay
    score,
    bestScore,          \* [nan, n]: a JS number, NaN or the integer n
    storage,            \* localStorage item 'flappyKahoBest': [present, text]
    pipes,              \* sequence of [id, x, y, passed]
    bird,               \* [y, velocity, rotation]
    prefersReducedMotion,
    motionOverride,
    isTabActive,
    canvasW, canvasH,   \* canvas.width / dpr, canvas.height / dpr  (dpr = 1)
    spawnTimer,
    bgOffsets,          \* [clouds, hills, trees, ground]
    audioCtx,           \* "null" | "running" | "suspended"
    audioAvailable,     \* the platform has a working AudioContext constructor
    reducedMotionMatches, \* matchMedia('(prefers-reduced-motion: reduce)').matches now
    darkModeQuery,      \* matchMedia('(prefers-color-scheme: dark)').matches now
    currentTheme,       \* ThemeManager.currentTheme: "light" | "dark"
    colors,             \* the palette BackgroundRenderer.colors refers to
    activeSounds,
    soundTimers,        \* pending setTimeout callbacks of playScoreSound()
    overlayHidden,      \* gameOverOverlay has class 'hidden'
    restartHidden,      \* restartBtn has class 'hidden'
    loopPending,        \* number of queued requestAnimationFrame(gameLoop) callbacks
    drawPending,        \* number of queued requestAnimationFrame(() => draw()) callbacks
    spawned,            \* number of pipes spawned so far (gives each pipe its id)
    spawnedAtReset,     \* the value of spawned at the last resetGame()
    played,             \* number of update() runs in state PLAYING so far
    longFrames,         \* number of those with dt > 100
    last,               \* the handler that ran last and what it did
    \* the carousel of src/i18n.js (initCarousel)
    currentIndex,       \* the slide the carousel has scrolled to
    interval,           \* the timer id startAutoplay() stored last
    activeIntervals,    \* the ids of the setInterval timers that are running
    documentHidden,     \* document.hidden as the carousel's listener saw it
    hovering            \* the pointer is over the carousel track

vars == <<state, frames, sinceLastTime, score, bestScore, storage, pipes, bird,
          prefersReducedMotion, motionOverride, isTabActive, canvasW, canvasH,
          spawnTimer, bgOffsets, audioCtx, audioAvailable, reducedMotionMatches,
          darkModeQuery, currentTheme, colors, activeSounds, soundTimers,
          overlayHidden, restartHidden, loopPending, drawPending, spawned,
          spawnedAtReset, played, longFrames, last, currentIndex, interval,
          activeIntervals, documentHidden, hovering>>

carouselVars == <<currentIndex, interval, activeIntervals, documentHidden, hovering>>

----------------------------------------------------------------------------
(* Bounds of the exploration *)

MaxPlayed == 2           \* update() runs in PLAYING per behaviour
MaxReadyFrames == 1      \* bobbing frames before the first input
MaxPending == 2          \* queued gameLoop callbacks
MaxDrawPending == 1      \* queued draw callbacks

\* frame delays (ms) a browser can deliver between lastTime and the timestamp
FrameDts == {16, 100}
\* the interval that has elapsed when lastTime is stale (page load, hidden tab)
LongGap == 5000
\* Math.random() results, as numerators over RandDen
RandDen == 1024
RandNums == {0, 512, 1023}
\* layout boxes getBoundingClientRect() can report (CSS px), <<width, height>>
RectSizes == {<<0, 0>>, <<320, 170>>}
\* contents localStorage can hold under 'flappyKahoBest' at page load
StoredTexts == {<<"a", "b">>, <<"2">>}

NoItem == [present |-> FALSE, text |-> <<>>]
\* the session specification
MaxSessionPlayed == 27
SessionDts == {100}
SessionRects == {<<80, 230>>}

\* the irregular-frames specification
MaxIrregularPlayed == 21
MaxLongFrames == 1       \* frames longer than DT_CAP per behaviour
IrregularDts == {100, 120}
SmallRects == {<<100, 200>>, <<60, 200>>}

\* the steady-player specification
\* four obstacles are passed in 82 frames of 100 ms, one more within 25 frames
\* of the restart
MaxAutopilotPlayed == 120

\* the pause-and-resume specification
MaxResumePlayed == 3

\* the carousel specification
MaxIntervals == 4        \* setInterval calls per behaviour
Slides == 3              \* slides in the carousel track

StoredItems ==
    {NoItem} \cup
    {[present |-> TRUE, text |-> t] : t \in StoredTexts}

----------------------------------------------------------------------------
(* PHYSICS constants, in the fixed-point units above *)

GRAVITY3 == 3                \* GRAVITY * scaler * 200 / dt = 0.25 * 0.06 * 200
JUMP == -920                 \* -4.6 * 200
PIPE_SPEED3 == 3             \* PIPE_SPEED * scaler * 25 / dt = 2 * 0.06 * 25
PIPE_SPAWN_RATE == 1800
PIPE_WIDTH == 1300           \* 52 * 25
PIPE_GAP == 130
BIRD_X == 1250               \* 50 * 25
BIRD_RADIUS == 15
HITBOX_SHRINK == 4
BIRD_Y0 == 1500000           \* 150 * 10000
MAX_CONCURRENT_SOUNDS == 3
SOUND_MS == 100              \* the delay of playScoreSound()'s timer
NOSE_UP == -625              \* -25 deg * 25
NOSE_DOWN == 2250            \* 90 deg * 25
DT_CAP == 100
DT_NOMINAL == 16
MIN_POS == 50
CULL_X == -250               \* -10 * 25
DEFAULT_W == 320
DEFAULT_H == 480

Num(n) == [nan |-> FALSE, n |-> n]
NaN == [nan |-> TRUE, n |-> 0]

----------------------------------------------------------------------------
(* Number <-> string conversions used for the persisted best score *)

Digits == <<"0", "1", "2", "3", "4", "5", "6", "7", "8", "9">>
IsDigit(c) == \E i \in 1..10 : Digits[i] = c
DigitVal(c) == (CHOOSE i \in 1..10 : Digits[i] = c) - 1

RECURSIVE ParseDigits(_, _, _)
\* longest digit prefix of s from position i, accumulated in acc
ParseDigits(s, i, acc) ==
    IF i > Len(s) \/ ~IsDigit(s[i]) THEN acc
    ELSE ParseDigits(s, i + 1, 10 * acc + DigitVal(s[i]))

RECURSIVE SkipSpace(_, _)
SkipSpace(s, i) == IF i <= Len(s) /\ s[i] = " " THEN SkipSpace(s, i + 1) ELSE i

\* parseInt(s): optional whitespace, optional sign, digits; NaN when no digit
parseInt(s) ==
    LET i == SkipSpace(s, 1)
        neg == i <= Len(s) /\ s[i] = "-"
        j == IF i <= Len(s) /\ s[i] \in {"-", "+"} THEN i + 1 ELSE i
    IN  IF j > Len(s) \/ ~IsDigit(s[j]) THEN NaN
        ELSE Num((IF neg THEN -1 ELSE 1) * ParseDigits(s, j, 0))

RECURSIVE NatToString(_)
NatToString(n) ==
    IF n < 10 THEN <<Digits[n + 1]>>
    ELSE NatToString(n \div 10) \o <<Digits[(n % 10) + 1]>>

\* String(x) for a JS number
NumberToString(x) ==
    IF x.nan THEN <<"N", "a", "N">>
    ELSE IF x.n < 0 THEN <<"-">> \o NatToString(-x.n)
    ELSE NatToString(x.n)

\* localStorage.getItem('flappyKahoBest') || '0'
getItemOrZero(st) == IF st.present /\ st.text # <<>> THEN st.text ELSE <<"0">>

\* score > bestScore  (any comparison with NaN is false)
Exceeds(s, b) == ~b.nan /\ s > b.n

----------------------------------------------------------------------------
(* Helpers *)

\* shouldPause() without its reduced-motion line
shouldPauseTabOnly == ~isTabActive

shouldPause ==
    \/ ~isTabActive
    \/ prefersReducedMotion /\ ~motionOverride

\* rect.width || 320, rect.height || 480
RectW(rect) == IF rect[1] = 0 THEN DEFAULT_W ELSE rect[1]
RectH(rect) == IF rect[2] = 0 THEN DEFAULT_H ELSE rect[2]

\* Math.floor(a / b) for b > 0
FloorDiv(a, b) == a \div b

\* Math.sin(frames * 0.05) * 5, in 1/10000 px, for the frames the model reaches
BobTable == <<2499, 4992, 7472, 9933, 12370, 14776, 17145, 19471>>
Bob(f) == IF f = 0 THEN 0 ELSE BobTable[f]

\* what the last handler was, the state it started in, the dt it passed to
\* update(), whether it ran update(), ran draw(), or ended by an exception,
\* and what its draw() painted: the palette BackgroundRenderer.render() read
\* and the branch drawClouds() took
Last(op, dt, updated, drew, threw) ==
    [op |-> op, from |-> state, dt |-> dt, updated |-> updated, drew |-> drew,
     threw |-> threw,
     palette |-> IF drew THEN colors ELSE "none",
     clouds |-> drew /\ currentTheme # "dark",
     moonStars |-> drew /\ currentTheme = "dark"]

----------------------------------------------------------------------------
(* Initialization: module-level state (436-470, 643-644) followed by init() *)

\* the page loads with a layout box in rects, a stored item in items, and the
\* reduced-motion preference, document.hidden, AudioContext support and the
\* dark color-scheme preference in the given sets
InitWith(rects, items, reduceds, hiddens, audios, darks) ==
    \E rect \in rects, st \in items,
       reduced \in reduceds, hidden \in hiddens, audio \in audios,
       dark \in darks :
        /\ state = "READY"
        /\ frames = 0
        /\ sinceLastTime = LongGap          \* lastTime = 0, the page has been loading
        /\ score = 0
        /\ storage = st
        /\ bestScore = parseInt(getItemOrZero(storage))
        /\ pipes = <<>>
        /\ bird = [y |-> BIRD_Y0, velocity |-> 0, rotation |-> 0]
        /\ prefersReducedMotion = reduced
        /\ motionOverride = FALSE
        /\ isTabActive = ~hidden
        /\ canvasW = RectW(rect)
        /\ canvasH = RectH(rect)
        /\ spawnTimer = 0
        /\ bgOffsets = [clouds |-> 0, hills |-> 0, trees |-> 0, ground |-> 0]
        /\ audioCtx = "null"
        /\ audioAvailable = audio
        /\ reducedMotionMatches = reduced
        /\ darkModeQuery = dark
        /\ currentTheme = (IF dark THEN "dark" ELSE "light")
        /\ colors = currentTheme
        /\ activeSounds = 0
        /\ soundTimers = <<>>
        /\ spawnedAtReset = 0
        /\ overlayHidden = TRUE
        /\ restartHidden = TRUE
        /\ loopPending = IF reduced THEN 0 ELSE 1
        /\ drawPending = 0
        /\ spawned = 0
        /\ played = 0
        /\ longFrames = 0
        /\ last = [op |-> "init", from |-> "READY", dt |-> 0, updated |-> FALSE,
                    drew |-> FALSE, threw |-> FALSE, palette |-> "none",
                    clouds |-> FALSE, moonStars |-> FALSE]
        \* initCarousel(): the first startAutoplay(), unless motion is reduced
        /\ currentIndex = 0
        /\ interval = IF reduced THEN 0 ELSE 1
        /\ activeIntervals = IF reduced THEN {} ELSE {1}
        /\ documentHidden = hidden
        /\ hovering = FALSE

Init == InitWith(RectSizes, {NoItem}, BOOLEAN, BOOLEAN, BOOLEAN, {FALSE})

----------------------------------------------------------------------------
(* update(dt) and what it calls *)

\* update() without its dt cap
EffectiveDtNoCap(dt) == dt

\* the dt that update() integrates with
EffectiveDt(dt) == IF dt > DT_CAP THEN DT_NOMINAL ELSE dt

\* gapY chosen by spawnPipe() for Math.random() = r / RandDen
GapY(h, r) ==
    LET maxPos == h - 50 - PIPE_GAP
        minPos == MIN_POS
    IN  FloorDiv(r * (maxPos - minPos + 1), RandDen) + minPos

\* pipes after spawnPipe()
spawnPipe(ps, r) ==
    Append(ps, [id |-> spawned + 1, x |-> canvasW * 25, y |-> GapY(canvasH, r),
                passed |-> FALSE])

\* playScoreSound() without its test of the concurrency cap
SoundStartsUncapped(sounds) == isTabActive

\* the timers set by playScoreSound(), each the time since it was set (capped
\* at the delay), after a frame of dt ms
AgeTimers(timers, dt) ==
    [k \in 1..Len(timers) |->
        IF timers[k] + dt > SOUND_MS THEN SOUND_MS ELSE timers[k] + dt]

\* playScoreSound() dereferences audioCtx after the two early returns
SoundStarts(sounds) == isTabActive /\ sounds < MAX_CONCURRENT_SOUNDS
SoundThrows(sounds) == SoundStarts(sounds) /\ audioCtx = "null"

RECURSIVE ForEachPipeLeadingEdge(_, _, _, _)
\* the forEach of update() testing the pipe's leading edge: pipe.x < bird.x
ForEachPipeLeadingEdge(ps, i, dt, acc) ==
    IF i > Len(ps) \/ acc.threw THEN acc
    ELSE
        LET p == ps[i]
            nx == p.x - PIPE_SPEED3 * dt
            pass == ~p.passed /\ nx < BIRD_X
            np == [p EXCEPT !.x = nx, !.passed = p.passed \/ pass]
        IN  ForEachPipeLeadingEdge(ps, i + 1, dt,
                [pipes  |-> [acc.pipes EXCEPT ![i] = np],
                 score  |-> IF pass THEN acc.score + 1 ELSE acc.score,
                 sounds |-> IF pass /\ SoundStarts(acc.sounds)
                            THEN acc.sounds + 1 ELSE acc.sounds,
                 threw  |-> pass /\ SoundThrows(acc.sounds)])

RECURSIVE ForEachPipeRescoring(_, _, _, _)
\* the forEach of update() without the !pipe.passed test
ForEachPipeRescoring(ps, i, dt, acc) ==
    IF i > Len(ps) \/ acc.threw THEN acc
    ELSE
        LET p == ps[i]
            nx == p.x - PIPE_SPEED3 * dt
            pass == nx + PIPE_WIDTH < BIRD_X
            np == [p EXCEPT !.x = nx, !.passed = p.passed \/ pass]
        IN  ForEachPipeRescoring(ps, i + 1, dt,
                [pipes  |-> [acc.pipes EXCEPT ![i] = np],
                 score  |-> IF pass THEN acc.score + 1 ELSE acc.score,
                 sounds |-> IF pass /\ SoundStarts(acc.sounds)
                            THEN acc.sounds + 1 ELSE acc.sounds,
                 threw  |-> pass /\ SoundThrows(acc.sounds)])

RECURSIVE ForEachPipe(_, _, _, _)
\* pipes.forEach(...) of update(): advance, mark passed, score, sound.
\* acc = [pipes, score, sounds, threw]; an exception ends the loop.
ForEachPipe(ps, i, dt, acc) ==
    IF i > Len(ps) \/ acc.threw THEN acc
    ELSE
        LET p == ps[i]
            nx == p.x - PIPE_SPEED3 * dt
            pass == ~p.passed /\ nx + PIPE_WIDTH < BIRD_X
            np == [p EXCEPT !.x = nx, !.passed = p.passed \/ pass]
        IN  ForEachPipe(ps, i + 1, dt,
                [pipes  |-> [acc.pipes EXCEPT ![i] = np],
                 score  |-> IF pass THEN acc.score + 1 ELSE acc.score,
                 sounds |-> IF pass /\ SoundStarts(acc.sounds)
                            THEN acc.sounds + 1 ELSE acc.sounds,
                 threw  |-> pass /\ SoundThrows(acc.sounds)])

\* the filter of update() dropping a pipe as soon as it has left the canvas
CullPipesAtZero(ps) == SelectSeq(ps, LAMBDA p : p.x + PIPE_WIDTH > 0)

\* the filter of update() dropping a pipe once its trailing edge has reached
\* the player
CullPipesAtPlayer(ps) == SelectSeq(ps, LAMBDA p : p.x + PIPE_WIDTH > BIRD_X)

\* pipes.filter(pipe => pipe.x + PIPE_WIDTH > -10)
CullPipes(ps) == SelectSeq(ps, LAMBDA p : p.x + PIPE_WIDTH > CULL_X)

\* hitbox edges: x in 1/25 px, y in 1/10000 px
birdLeft == BIRD_X - (BIRD_RADIUS - HITBOX_SHRINK) * 25
birdRight == BIRD_X + (BIRD_RADIUS - HITBOX_SHRINK) * 25
birdTop(y) == y - (BIRD_RADIUS - HITBOX_SHRINK) * 10000
birdBottom(y) == y + (BIRD_RADIUS - HITBOX_SHRINK) * 10000

\* the floor/ceiling test of checkCollision() without its floor half
HitsBoundsCeilingOnly(y, h) == birdTop(y) <= 0

HitsBounds(y, h) == birdBottom(y) >= h * 10000 \/ birdTop(y) <= 0
\* the pipe test of checkCollision() without its bottom-pipe half
HitsPipeTopOnly(y, p) ==
    /\ birdRight > p.x /\ birdLeft < p.x + PIPE_WIDTH
    /\ birdTop(y) < p.y * 10000

HitsPipe(y, p) ==
    /\ birdRight > p.x /\ birdLeft < p.x + PIPE_WIDTH
    /\ birdTop(y) < p.y * 10000 \/ birdBottom(y) > (p.y + PIPE_GAP) * 10000

\* checkCollision() calls gameOver()
Collides(y, ps, h) == HitsBounds(y, h) \/ \E i \in 1..Len(ps) : HitsPipe(y, ps[i])

\* bird after step 1 of update() in PLAYING
MoveBird(b, dt) ==
    LET v == b.velocity + GRAVITY3 * dt
        y == b.y + 3 * v * dt
        rot == IF v < 0 THEN NOSE_UP
               ELSE IF b.rotation + 3 * dt > NOSE_DOWN THEN NOSE_DOWN
               ELSE b.rotation + 3 * dt
    IN  [y |-> y, velocity |-> v, rotation |-> rot]

\* the background update keeping every offset within one canvas width
MoveBackgroundWrapped(bg, dt) ==
    [clouds |-> (bg.clouds + 36 * dt) % (canvasW * 1000),
     hills  |-> (bg.hills + 60 * dt) % (canvasW * 1000),
     trees  |-> (bg.trees + 96 * dt) % (canvasW * 1000),
     ground |-> (bg.ground + 120 * dt) % (canvasW * 1000)]

\* the background update with the ratios of the layers in reverse order
MoveBackgroundNearSlower(bg, dt) ==
    [clouds |-> bg.clouds + 120 * dt,
     hills  |-> bg.hills + 96 * dt,
     trees  |-> bg.trees + 60 * dt,
     ground |-> bg.ground + 36 * dt]

\* bgOffsets after step 2 of update() in PLAYING
MoveBackground(bg, dt) ==
    [clouds |-> bg.clouds + 36 * dt,
     hills  |-> bg.hills + 60 * dt,
     trees  |-> bg.trees + 96 * dt,
     ground |-> bg.ground + 120 * dt]

\* gameOver() saving the score when it ties the best score (>= for >)
gameOverSavesOnTie ==
    /\ state' = "GAME_OVER"
    /\ IF ~bestScore.nan /\ score' >= bestScore.n
       THEN /\ bestScore' = Num(score')
            /\ storage' = [present |-> TRUE, text |-> NumberToString(Num(score'))]
       ELSE UNCHANGED <<bestScore, storage>>
    /\ overlayHidden' = FALSE
    /\ restartHidden' = FALSE

\* gameOver(): state, best score, storage, overlay, restart button
gameOver ==
    /\ state' = "GAME_OVER"
    /\ IF Exceeds(score', bestScore)
       THEN /\ bestScore' = Num(score')
            /\ storage' = [present |-> TRUE, text |-> NumberToString(Num(score'))]
       ELSE UNCHANGED <<bestScore, storage>>
    /\ overlayHidden' = FALSE
    /\ restartHidden' = FALSE

\* the spawn test of update() passing at the rate itself (>= for >)
SpawnDueAtRate(timer) == timer >= PIPE_SPAWN_RATE

\* if (spawnTimer > PHYSICS.PIPE_SPAWN_RATE)
SpawnDue(timer) == timer > PIPE_SPAWN_RATE

\* update(rawDt) in state PLAYING with Math.random() = r / RandDen;
\* threw' tells whether playScoreSound() raised and ended the call
UpdatePlaying(rawDt, r) ==
    LET dt == EffectiveDt(rawDt)
        timer == spawnTimer + dt
        spawn == SpawnDue(timer)
        ps0 == IF spawn THEN spawnPipe(pipes, r) ELSE pipes
        fe == ForEachPipe(ps0, 1, dt,
                  [pipes |-> ps0, score |-> score, sounds |-> activeSounds,
                   threw |-> FALSE])
        nb == MoveBird(bird, dt)
        kept == CullPipes(fe.pipes)
    IN  /\ bird' = nb
        /\ bgOffsets' = MoveBackground(bgOffsets, dt)
        /\ spawnTimer' = IF spawn THEN 0 ELSE timer
        /\ spawned' = IF spawn THEN spawned + 1 ELSE spawned
        /\ score' = fe.score
        /\ activeSounds' = fe.sounds
        \* every call that got past createOscillator() set one timer (669)
        /\ soundTimers' = AgeTimers(soundTimers, rawDt) \o
               [k \in 1..(fe.sounds - activeSounds - (IF fe.threw THEN 1 ELSE 0))
                   |-> 0]
        /\ frames' = frames
        /\ IF fe.threw
           THEN /\ pipes' = fe.pipes
                /\ UNCHANGED <<state, bestScore, storage, overlayHidden,
                               restartHidden>>
           ELSE /\ pipes' = kept
                /\ IF Collides(nb.y, kept, canvasH)
                   THEN gameOver
                   ELSE UNCHANGED <<state, bestScore, storage, overlayHidden,
                                    restartHidden>>
        /\ played' = played + 1
        /\ spawnedAtReset' = spawnedAtReset
        /\ longFrames' = IF rawDt > DT_CAP THEN longFrames + 1 ELSE longFrames
        /\ last' = Last("gameLoop", rawDt, TRUE, ~fe.threw, fe.threw)
        /\ loopPending' = IF fe.threw THEN loopPending - 1 ELSE loopPending

\* update(dt) in state READY: bobbing
UpdateReady(rawDt) ==
    /\ frames < MaxReadyFrames
    /\ frames' = frames + 1
    /\ bird' = [bird EXCEPT !.y = BIRD_Y0 + Bob(frames + 1)]
    /\ soundTimers' = AgeTimers(soundTimers, rawDt)
    /\ UNCHANGED <<state, score, bestScore, storage, pipes, spawnTimer,
                   bgOffsets, activeSounds, overlayHidden, restartHidden,
                   spawned, loopPending, played, longFrames, spawnedAtReset>>
    /\ last' = Last("gameLoop", rawDt, TRUE, TRUE, FALSE)

\* update(dt) in state GAME_OVER: nothing
UpdateGameOver(rawDt) ==
    /\ soundTimers' = AgeTimers(soundTimers, rawDt)
    /\ UNCHANGED <<state, frames, score, bestScore, storage, pipes, bird,
                   spawnTimer, bgOffsets, activeSounds, overlayHidden,
                   restartHidden, spawned, loopPending, played, longFrames,
                   spawnedAtReset>>
    /\ last' = Last("gameLoop", rawDt, TRUE, TRUE, FALSE)

\* gameLoop(timestamp) requesting the next frame before its pause test
gameLoopKeepsRequesting(d, r) ==
    /\ loopPending > 0
    /\ IF shouldPause
       THEN /\ loopPending' = loopPending
            /\ last' = Last("gameLoop", 0, FALSE, FALSE, FALSE)
            /\ UNCHANGED <<state, frames, sinceLastTime, score, bestScore,
                           storage, pipes, bird, spawnTimer, bgOffsets,
                           activeSounds, soundTimers, overlayHidden,
                           restartHidden, spawned, played, longFrames,
                           spawnedAtReset>>
       ELSE /\ sinceLastTime' = 0
            /\ CASE state = "PLAYING" -> UpdatePlaying(sinceLastTime + d, r)
                 [] state = "READY" -> UpdateReady(sinceLastTime + d)
                 [] OTHER -> UpdateGameOver(sinceLastTime + d)
    /\ UNCHANGED <<prefersReducedMotion, motionOverride, isTabActive, canvasW,
                   canvasH, audioCtx, audioAvailable, reducedMotionMatches,
                   darkModeQuery, currentTheme, colors, drawPending,
                   carouselVars>>

\* gameLoop(timestamp): a queued callback runs, d ms after the frame baseline
gameLoop(d, r) ==
    /\ loopPending > 0
    /\ IF shouldPause
       THEN /\ loopPending' = loopPending - 1
            /\ last' = Last("gameLoop", 0, FALSE, FALSE, FALSE)
            /\ UNCHANGED <<state, frames, sinceLastTime, score, bestScore,
                           storage, pipes, bird, spawnTimer, bgOffsets,
                           activeSounds, soundTimers, overlayHidden,
                           restartHidden, spawned, played, longFrames,
                           spawnedAtReset>>
       ELSE /\ sinceLastTime' = 0
            /\ CASE state = "PLAYING" -> UpdatePlaying(sinceLastTime + d, r)
                 [] state = "READY" -> UpdateReady(sinceLastTime + d)
                 [] OTHER -> UpdateGameOver(sinceLastTime + d)
    /\ UNCHANGED <<prefersReducedMotion, motionOverride, isTabActive, canvasW,
                   canvasH, audioCtx, audioAvailable, reducedMotionMatches,
                   darkModeQuery, currentTheme, colors, drawPending,
                   carouselVars>>

----------------------------------------------------------------------------
(* Event handlers *)

\* restartGame() without its jump impulse
restartGameNoJump ==
    /\ state' = "PLAYING"
    /\ bird' = [y |-> BIRD_Y0, velocity |-> 0, rotation |-> 0]
    /\ score' = 0
    /\ spawnedAtReset' = spawned
    /\ pipes' = <<>>
    /\ spawnTimer' = 0
    /\ frames' = 0
    /\ overlayHidden' = TRUE
    /\ restartHidden' = TRUE

\* restartGame() doing resetGame() alone
restartGameResetOnly ==
    /\ state' = "READY"
    /\ bird' = [y |-> BIRD_Y0, velocity |-> 0, rotation |-> 0]
    /\ score' = 0
    /\ spawnedAtReset' = spawned
    /\ pipes' = <<>>
    /\ spawnTimer' = 0
    /\ frames' = 0
    /\ overlayHidden' = TRUE
    /\ restartHidden' = TRUE

\* resetGame() followed by the two assignments of restartGame()
restartGame ==
    /\ state' = "PLAYING"
    /\ bird' = [y |-> BIRD_Y0, velocity |-> JUMP, rotation |-> 0]
    /\ score' = 0
    /\ spawnedAtReset' = spawned
    /\ pipes' = <<>>
    /\ spawnTimer' = 0
    /\ frames' = 0
    /\ overlayHidden' = TRUE
    /\ restartHidden' = TRUE

\* handleInput() adding the jump to the velocity (+= for =)
handleInputAdditiveJump ==
    /\ UNCHANGED <<sinceLastTime, bestScore, storage, prefersReducedMotion,
                   motionOverride, isTabActive, canvasW, canvasH, bgOffsets,
                   audioAvailable, reducedMotionMatches, darkModeQuery,
                   currentTheme, colors, activeSounds, soundTimers, loopPending,
                   drawPending, spawned, played, longFrames, carouselVars>>
    /\ IF shouldPause
       THEN /\ UNCHANGED <<state, frames, score, pipes, bird, spawnTimer,
                           audioCtx, overlayHidden, restartHidden,
                           spawnedAtReset>>
            /\ last' = Last("handleInput", 0, FALSE, FALSE, FALSE)
       ELSE IF audioCtx = "null" /\ ~audioAvailable
       THEN \* new (window.AudioContext || window.webkitAudioContext)() throws
            /\ UNCHANGED <<state, frames, score, pipes, bird, spawnTimer,
                           audioCtx, overlayHidden, restartHidden,
                           spawnedAtReset>>
            /\ last' = Last("handleInput", 0, FALSE, FALSE, TRUE)
       ELSE /\ audioCtx' = "running"
            /\ last' = Last("handleInput", 0, FALSE, FALSE, FALSE)
            /\ CASE state = "READY" ->
                      /\ state' = "PLAYING"
                      /\ UNCHANGED <<frames, score, pipes, bird, spawnTimer,
                                     overlayHidden, restartHidden,
                                     spawnedAtReset>>
                 [] state = "PLAYING" ->
                      /\ bird' = [bird EXCEPT !.velocity = bird.velocity + JUMP]
                      /\ UNCHANGED <<state, frames, score, pipes, spawnTimer,
                                     overlayHidden, restartHidden,
                                     spawnedAtReset>>
                 [] OTHER -> restartGame

\* handleInput() without the creation or resumption of the audio context
handleInputNoAudio ==
    /\ UNCHANGED <<sinceLastTime, bestScore, storage, prefersReducedMotion,
                   motionOverride, isTabActive, canvasW, canvasH, bgOffsets,
                   audioAvailable, reducedMotionMatches, darkModeQuery,
                   currentTheme, colors, activeSounds, soundTimers, loopPending,
                   drawPending, spawned, played, longFrames, carouselVars>>
    /\ IF shouldPause
       THEN /\ UNCHANGED <<state, frames, score, pipes, bird, spawnTimer,
                           audioCtx, overlayHidden, restartHidden,
                           spawnedAtReset>>
            /\ last' = Last("handleInput", 0, FALSE, FALSE, FALSE)
       ELSE IF audioCtx = "null" /\ ~audioAvailable
       THEN \* new (window.AudioContext || window.webkitAudioContext)() throws
            /\ UNCHANGED <<state, frames, score, pipes, bird, spawnTimer,
                           audioCtx, overlayHidden, restartHidden,
                           spawnedAtReset>>
            /\ last' = Last("handleInput", 0, FALSE, FALSE, TRUE)
       ELSE /\ audioCtx' = audioCtx
            /\ last' = Last("handleInput", 0, FALSE, FALSE, FALSE)
            /\ CASE state = "READY" ->
                      /\ state' = "PLAYING"
                      /\ UNCHANGED <<frames, score, pipes, bird, spawnTimer,
                                     overlayHidden, restartHidden,
                                     spawnedAtReset>>
                 [] state = "PLAYING" ->
                      /\ bird' = [bird EXCEPT !.velocity = JUMP]
                      /\ UNCHANGED <<state, frames, score, pipes, spawnTimer,
                                     overlayHidden, restartHidden,
                                     spawnedAtReset>>
                 [] OTHER -> restartGame

\* handleInput(): mousedown, touchstart or Space
handleInput ==
    /\ UNCHANGED <<sinceLastTime, bestScore, storage, prefersReducedMotion,
                   motionOverride, isTabActive, canvasW, canvasH, bgOffsets,
                   audioAvailable, reducedMotionMatches, darkModeQuery,
                   currentTheme, colors, activeSounds, soundTimers, loopPending,
                   drawPending, spawned, played, longFrames, carouselVars>>
    /\ IF shouldPause
       THEN /\ UNCHANGED <<state, frames, score, pipes, bird, spawnTimer,
                           audioCtx, overlayHidden, restartHidden,
                           spawnedAtReset>>
            /\ last' = Last("handleInput", 0, FALSE, FALSE, FALSE)
       ELSE IF audioCtx = "null" /\ ~audioAvailable
       THEN \* new (window.AudioContext || window.webkitAudioContext)() throws
            /\ UNCHANGED <<state, frames, score, pipes, bird, spawnTimer,
                           audioCtx, overlayHidden, restartHidden,
                           spawnedAtReset>>
            /\ last' = Last("handleInput", 0, FALSE, FALSE, TRUE)
       ELSE /\ audioCtx' = "running"
            /\ last' = Last("handleInput", 0, FALSE, FALSE, FALSE)
            /\ CASE state = "READY" ->
                      /\ state' = "PLAYING"
                      /\ UNCHANGED <<frames, score, pipes, bird, spawnTimer,
                                     overlayHidden, restartHidden,
                                     spawnedAtReset>>
                 [] state = "PLAYING" ->
                      /\ bird' = [bird EXCEPT !.velocity = JUMP]
                      /\ UNCHANGED <<state, frames, score, pipes, spawnTimer,
                                     overlayHidden, restartHidden,
                                     spawnedAtReset>>
                 [] OTHER -> restartGame

\* click on the restart button: restartGame()
restartClick ==
    /\ restartGame
    /\ last' = Last("restartClick", 0, FALSE, FALSE, FALSE)
    /\ UNCHANGED <<sinceLastTime, bestScore, storage, prefersReducedMotion,
                   motionOverride, isTabActive, canvasW, canvasH, bgOffsets,
                   audioCtx, audioAvailable, reducedMotionMatches,
                   darkModeQuery, currentTheme, colors, activeSounds,
                   soundTimers, loopPending, drawPending, spawned, played,
                   longFrames, carouselVars>>

\* the override handler without its lastTime = performance.now()
enableMotionStaleBaseline ==
    /\ loopPending < MaxPending
    /\ motionOverride' = TRUE
    /\ sinceLastTime' = sinceLastTime
    /\ loopPending' = loopPending + 1
    /\ last' = Last("enableMotion", 0, FALSE, FALSE, FALSE)
    /\ UNCHANGED <<state, frames, score, bestScore, storage, pipes, bird,
                   prefersReducedMotion, isTabActive, canvasW, canvasH,
                   spawnTimer, bgOffsets, audioCtx, audioAvailable,
                   reducedMotionMatches, darkModeQuery, currentTheme, colors,
                   activeSounds, soundTimers, overlayHidden, restartHidden,
                   drawPending, spawned, played, longFrames, spawnedAtReset,
                   carouselVars>>

\* click on the enable-animations button
enableMotion ==
    /\ loopPending < MaxPending
    /\ motionOverride' = TRUE
    /\ sinceLastTime' = 0
    /\ loopPending' = loopPending + 1
    /\ last' = Last("enableMotion", 0, FALSE, FALSE, FALSE)
    /\ UNCHANGED <<state, frames, score, bestScore, storage, pipes, bird,
                   prefersReducedMotion, isTabActive, canvasW, canvasH,
                   spawnTimer, bgOffsets, audioCtx, audioAvailable,
                   reducedMotionMatches, darkModeQuery, currentTheme, colors,
                   activeSounds, soundTimers, overlayHidden, restartHidden,
                   drawPending, spawned, played, longFrames, spawnedAtReset,
                   carouselVars>>

\* the visibilitychange handler testing isTabActive alone, not shouldPause()
visibilityChangeTabOnly(hidden) ==
    /\ hidden = isTabActive
    /\ isTabActive' = ~hidden
    /\ IF ~hidden
       THEN /\ loopPending < MaxPending
            /\ sinceLastTime' = 0
            /\ loopPending' = loopPending + 1
       ELSE /\ sinceLastTime' = LongGap
            /\ UNCHANGED loopPending
    /\ last' = Last("visibilityChange", 0, FALSE, FALSE, FALSE)
    /\ UNCHANGED <<state, frames, score, bestScore, storage, pipes, bird,
                   prefersReducedMotion, motionOverride, canvasW, canvasH,
                   spawnTimer, bgOffsets, audioCtx, audioAvailable,
                   reducedMotionMatches, darkModeQuery, currentTheme, colors,
                   activeSounds, soundTimers, overlayHidden, restartHidden,
                   drawPending, spawned, played, longFrames, spawnedAtReset,
                   carouselVars>>

\* the visibilitychange handler recording the visibility without restarting
\* the loop
visibilityChangeNoRestart(hidden) ==
    /\ hidden = isTabActive
    /\ isTabActive' = ~hidden
    /\ sinceLastTime' = (IF hidden THEN LongGap ELSE sinceLastTime)
    /\ UNCHANGED loopPending
    /\ last' = Last("visibilityChange", 0, FALSE, FALSE, FALSE)
    /\ UNCHANGED <<state, frames, score, bestScore, storage, pipes, bird,
                   prefersReducedMotion, motionOverride, canvasW, canvasH,
                   spawnTimer, bgOffsets, audioCtx, audioAvailable,
                   reducedMotionMatches, darkModeQuery, currentTheme, colors,
                   activeSounds, soundTimers, overlayHidden, restartHidden,
                   drawPending, spawned, played, longFrames, spawnedAtReset,
                   carouselVars>>

\* visibilitychange with document.hidden = hidden; the hidden interval has
\* elapsed when the tab comes back
visibilityChange(hidden) ==
    /\ hidden = isTabActive
    /\ isTabActive' = ~hidden
    /\ IF ~hidden /\ ~(prefersReducedMotion /\ ~motionOverride)
       THEN /\ loopPending < MaxPending
            /\ sinceLastTime' = 0
            /\ loopPending' = loopPending + 1
       ELSE /\ sinceLastTime' = LongGap
            /\ UNCHANGED loopPending
    /\ last' = Last("visibilityChange", 0, FALSE, FALSE, FALSE)
    /\ UNCHANGED <<state, frames, score, bestScore, storage, pipes, bird,
                   prefersReducedMotion, motionOverride, canvasW, canvasH,
                   spawnTimer, bgOffsets, audioCtx, audioAvailable,
                   reducedMotionMatches, darkModeQuery, currentTheme, colors,
                   activeSounds, soundTimers, overlayHidden, restartHidden,
                   drawPending, spawned, played, longFrames, spawnedAtReset,
                   carouselVars>>

\* the resize handler requesting gameLoop instead of draw
resizeRestartsLoop(rect) ==
    /\ drawPending < MaxDrawPending
    /\ canvasW' = RectW(rect)
    /\ canvasH' = RectH(rect)
    /\ loopPending' = loopPending + 1
    /\ last' = Last("resize", 0, FALSE, FALSE, FALSE)
    /\ UNCHANGED <<state, frames, sinceLastTime, score, bestScore, storage,
                   pipes, bird, prefersReducedMotion, motionOverride,
                   isTabActive, spawnTimer, bgOffsets, audioCtx, audioAvailable,
                   reducedMotionMatches, darkModeQuery, currentTheme, colors,
                   activeSounds, soundTimers, overlayHidden, restartHidden,
                   drawPending, spawned, played, longFrames, spawnedAtReset,
                   carouselVars>>

\* window resize: setupHiDPI() and one queued draw
resize(rect) ==
    /\ drawPending < MaxDrawPending
    /\ canvasW' = RectW(rect)
    /\ canvasH' = RectH(rect)
    /\ drawPending' = drawPending + 1
    /\ last' = Last("resize", 0, FALSE, FALSE, FALSE)
    /\ UNCHANGED <<state, frames, sinceLastTime, score, bestScore, storage,
                   pipes, bird, prefersReducedMotion, motionOverride,
                   isTabActive, spawnTimer, bgOffsets, audioCtx, audioAvailable,
                   reducedMotionMatches, darkModeQuery, currentTheme, colors,
                   activeSounds, soundTimers, overlayHidden, restartHidden,
                   loopPending, spawned, played, longFrames, spawnedAtReset,
                   carouselVars>>

\* the callback queued by resize: draw()
drawCallback ==
    /\ drawPending > 0
    /\ drawPending' = drawPending - 1
    /\ last' = Last("drawCallback", 0, FALSE, TRUE, FALSE)
    /\ UNCHANGED <<state, frames, sinceLastTime, score, bestScore, storage,
                   pipes, bird, prefersReducedMotion, motionOverride,
                   isTabActive, canvasW, canvasH, spawnTimer, bgOffsets,
                   audioCtx, audioAvailable, reducedMotionMatches,
                   darkModeQuery, currentTheme, colors, activeSounds,
                   soundTimers, overlayHidden, restartHidden, loopPending,
                   spawned, played, longFrames, spawnedAtReset, carouselVars>>

\* the platform suspends the running audio context (autoplay policy, an
\* interruption); handleInput() resumes it
audioSuspend ==
    /\ audioCtx = "running"
    /\ audioCtx' = "suspended"
    /\ last' = Last("audioSuspend", 0, FALSE, FALSE, FALSE)
    /\ UNCHANGED <<state, frames, sinceLastTime, score, bestScore, storage,
                   pipes, bird, prefersReducedMotion, motionOverride,
                   isTabActive, canvasW, canvasH, spawnTimer, bgOffsets,
                   audioAvailable, reducedMotionMatches, darkModeQuery,
                   currentTheme, colors, activeSounds, soundTimers,
                   overlayHidden, restartHidden, loopPending, drawPending,
                   spawned, played, longFrames, spawnedAtReset, carouselVars>>

\* the system reduced-motion preference changes; the module has read it
\* once (457) and registers no listener for it
reducedMotionChange ==
    /\ reducedMotionMatches' = ~reducedMotionMatches
    /\ last' = Last("reducedMotionChange", 0, FALSE, FALSE, FALSE)
    /\ UNCHANGED <<state, frames, sinceLastTime, score, bestScore, storage,
                   pipes, bird, prefersReducedMotion, motionOverride,
                   isTabActive, canvasW, canvasH, spawnTimer, bgOffsets,
                   audioCtx, audioAvailable, darkModeQuery, currentTheme,
                   colors, activeSounds, soundTimers, overlayHidden,
                   restartHidden, loopPending, drawPending, spawned, played,
                   longFrames, spawnedAtReset, carouselVars>>

\* the color-scheme listener setting currentTheme without applyTheme()
colorSchemeChangeThemeOnly(matches) ==
    /\ matches # darkModeQuery
    /\ darkModeQuery' = matches
    /\ currentTheme' = (IF matches THEN "dark" ELSE "light")
    /\ colors' = colors
    /\ last' = Last("colorSchemeChange", 0, FALSE, FALSE, FALSE)
    /\ UNCHANGED <<state, frames, sinceLastTime, score, bestScore, storage,
                   pipes, bird, prefersReducedMotion, motionOverride,
                   isTabActive, canvasW, canvasH, spawnTimer, bgOffsets,
                   audioCtx, audioAvailable, reducedMotionMatches, activeSounds,
                   soundTimers, overlayHidden, restartHidden, loopPending,
                   drawPending, spawned, played, longFrames, spawnedAtReset,
                   carouselVars>>

\* the 'change' listener of the color-scheme query (635-638): the system
\* preference becomes matches
colorSchemeChange(matches) ==
    /\ matches # darkModeQuery
    /\ darkModeQuery' = matches
    /\ currentTheme' = (IF matches THEN "dark" ELSE "light")
    /\ colors' = currentTheme'                      \* applyTheme()
    /\ last' = Last("colorSchemeChange", 0, FALSE, FALSE, FALSE)
    /\ UNCHANGED <<state, frames, sinceLastTime, score, bestScore, storage,
                   pipes, bird, prefersReducedMotion, motionOverride,
                   isTabActive, canvasW, canvasH, spawnTimer, bgOffsets,
                   audioCtx, audioAvailable, reducedMotionMatches, activeSounds,
                   soundTimers, overlayHidden, restartHidden, loopPending,
                   drawPending, spawned, played, longFrames, spawnedAtReset,
                   carouselVars>>

\* the setTimeout callback of playScoreSound()
soundTimeout ==
    /\ soundTimers # <<>>
    /\ Head(soundTimers) >= SOUND_MS
    /\ activeSounds' = activeSounds - 1
    /\ soundTimers' = Tail(soundTimers)
    /\ last' = Last("soundTimeout", 0, FALSE, FALSE, FALSE)
    /\ UNCHANGED <<state, frames, sinceLastTime, score, bestScore, storage,
                   pipes, bird, prefersReducedMotion, motionOverride,
                   isTabActive, canvasW, canvasH, spawnTimer, bgOffsets,
                   audioCtx, audioAvailable, reducedMotionMatches,
                   darkModeQuery, currentTheme, colors, overlayHidden,
                   restartHidden, loopPending, drawPending, spawned, played,
                   longFrames, spawnedAtReset, carouselVars>>

\* the restart button can be clicked only while it is shown: the page markup
\* hides it until gameOver() shows it (section 4.3: "restart affordance becomes
\* visible")
RestartUsable == ~restartHidden

\* the exploration stops advancing the game after max PLAYING updates
Horizon(max) == (state = "PLAYING" /\ ~shouldPause) => played < max

Next ==
    \/ \E d \in FrameDts, r \in RandNums : Horizon(MaxPlayed) /\ gameLoop(d, r)
    \/ handleInput
    \/ RestartUsable /\ restartClick
    \/ enableMotion
    \/ \E hidden \in BOOLEAN : visibilityChange(hidden)
    \/ \E rect \in RectSizes : resize(rect)
    \/ drawCallback
    \/ audioSuspend
    \/ reducedMotionChange

\* No point is scored within MaxPlayed updates, so no sound timer is ever set
\* here: soundTimeout belongs to the session specification below.
Spec == Init /\ [][Next]_vars

----------------------------------------------------------------------------
(* A whole session: a visible tab with motion and audio enabled, steady      *)
(* frames of 100 ms, long enough     for pipes to spawn and be passed      *)

InitSession ==
    InitWith(SessionRects, StoredItems, {FALSE}, {FALSE}, {TRUE}, {FALSE})

NextSession ==
    \/ \E d \in SessionDts, r \in RandNums :
          Horizon(MaxSessionPlayed) /\ gameLoop(d, r)
    \/ handleInput
    \/ RestartUsable /\ restartClick
    \/ soundTimeout

SpecSession == InitSession /\ [][NextSession]_vars

----------------------------------------------------------------------------
(* Sessions on a small canvas with long frames once obstacles have spawned *)

InitIrregular ==
    InitWith(SmallRects, {NoItem}, {FALSE}, {FALSE}, {TRUE}, {FALSE})

\* a frame longer than DT_CAP comes while an obstacle is on the playfield, at
\* most max times
LongFrames(max, d) ==
    (state = "PLAYING" /\ ~shouldPause /\ sinceLastTime + d > DT_CAP) =>
        (pipes # <<>> /\ longFrames < max)

NextIrregular ==
    \/ \E d \in IrregularDts, r \in RandNums :
          Horizon(MaxIrregularPlayed) /\ LongFrames(MaxLongFrames, d) /\ gameLoop(d, r)
    \/ handleInput

SpecIrregular == InitIrregular /\ [][NextIrregular]_vars

----------------------------------------------------------------------------
(* A long session of a steady player: the player starts the game and then   *)
(* presses whenever the bird has sunk below a line, before the next frame,  *)
(* until one more obstacle than the sound cap has been passed; then the     *)
(* player lets the bird fall and restarts from the game-over screen. Sound  *)
(* timers may run late and the color scheme may change at any time          *)

InitAutopilot ==
    InitWith(SessionRects, {NoItem}, {FALSE}, {FALSE}, {TRUE}, BOOLEAN)

\* the height (1/10000 px) below which the player presses
PlayerLine == 130 * 10000

\* the number of obstacles the player wants to pass
PlayerGoal == MAX_CONCURRENT_SOUNDS + 1

PlayerPresses ==
    \/ state = "READY"
    \/ state = "GAME_OVER"
    \/ /\ state = "PLAYING" /\ score < PlayerGoal
       /\ bird.y > PlayerLine /\ bird.velocity # JUMP

NextAutopilot ==
    \/ \E d \in SessionDts, r \in RandNums :
          /\ Horizon(MaxAutopilotPlayed)
          /\ state = "PLAYING" => ~PlayerPresses
          /\ gameLoop(d, r)
    \/ PlayerPresses /\ handleInput
    \/ RestartUsable /\ restartClick
    \/ soundTimeout
    \/ \E matches \in BOOLEAN : colorSchemeChange(matches)
    \/ \E rect \in SessionRects : resize(rect)
    \/ drawCallback

SpecAutopilot == InitAutopilot /\ [][NextAutopilot]_vars

----------------------------------------------------------------------------
(* Pausing and resuming: the tab is hidden and shown and the motion override *)
(* is activated, on a platform with audio; every queued frame callback is    *)
(* eventually delivered                                                      *)

InitResume ==
    InitWith(SessionRects, {NoItem}, BOOLEAN, BOOLEAN, {TRUE}, {FALSE})

Tick ==
    \E d \in FrameDts, r \in RandNums : Horizon(MaxResumePlayed) /\ gameLoop(d, r)

NextResume ==
    \/ Tick
    \/ handleInput
    \/ enableMotion
    \/ \E hidden \in BOOLEAN : visibilityChange(hidden)

SpecResume == InitResume /\ [][NextResume]_vars /\ WF_vars(Tick)

----------------------------------------------------------------------------
(* The carousel of src/i18n.js: autoplay timers under visibility changes and *)
(* the pointer entering and leaving the track                                *)

gameVars ==
    <<state, frames, sinceLastTime, score, bestScore, storage, pipes, bird,
      prefersReducedMotion, motionOverride, isTabActive, canvasW, canvasH,
      spawnTimer, bgOffsets, audioCtx, audioAvailable, reducedMotionMatches,
      darkModeQuery, currentTheme, colors, activeSounds, soundTimers,
      overlayHidden, restartHidden, loopPending, drawPending, spawned,
      spawnedAtReset, played, longFrames>>

\* startAutoplay(): interval = setInterval(...), whatever interval held
startAutoplay ==
    /\ interval < MaxIntervals
    /\ interval' = interval + 1
    /\ activeIntervals' = activeIntervals \cup {interval + 1}

\* stopAutoplay(): clearInterval(interval)
stopAutoplay ==
    /\ activeIntervals' = activeIntervals \ {interval}
    /\ interval' = interval

\* the carousel's visibilitychange listener
carouselVisibilityChange(hidden) ==
    /\ ~prefersReducedMotion              \* the listeners were registered
    /\ hidden # documentHidden
    /\ documentHidden' = hidden
    /\ IF hidden THEN stopAutoplay ELSE startAutoplay
    /\ last' = Last("carouselVisibilityChange", 0, FALSE, FALSE, FALSE)
    /\ UNCHANGED <<currentIndex, hovering, gameVars>>

\* mouseenter on the track
mouseenter ==
    /\ ~prefersReducedMotion
    /\ ~hovering
    /\ hovering' = TRUE
    /\ stopAutoplay
    /\ last' = Last("mouseenter", 0, FALSE, FALSE, FALSE)
    /\ UNCHANGED <<currentIndex, documentHidden, gameVars>>

\* mouseleave on the track
mouseleave ==
    /\ ~prefersReducedMotion
    /\ hovering
    /\ hovering' = FALSE
    /\ startAutoplay
    /\ last' = Last("mouseleave", 0, FALSE, FALSE, FALSE)
    /\ UNCHANGED <<currentIndex, documentHidden, gameVars>>

\* the callback of the running setInterval timer id
intervalCallback(id) ==
    /\ id \in activeIntervals
    /\ currentIndex' = (currentIndex + 1) % Slides
    /\ last' = Last("intervalCallback", 0, FALSE, FALSE, FALSE)
    /\ UNCHANGED <<interval, activeIntervals, documentHidden, hovering,
                   gameVars>>

InitCarousel ==
    InitWith(SessionRects, {NoItem}, {FALSE}, BOOLEAN, {TRUE}, {FALSE})

NextCarousel ==
    \/ \E hidden \in BOOLEAN : carouselVisibilityChange(hidden)
    \/ mouseenter
    \/ mouseleave
    \/ \E id \in 1..MaxIntervals : intervalCallback(id)

SpecCarousel == InitCarousel /\ [][NextCarousel]_vars

----------------------------------------------------------------------------
(* Properties *)

\* "paused" as section 5 of the specification defines it
Paused == ~isTabActive \/ (prefersReducedMotion /\ ~motionOverride)

\* a step in which restartGame() ran: the restart button, or a primary input
\* that got past its pause check and its audio set-up
RestartPerformed ==
    \/ last'.op = "restartClick"
    \/ last'.op = "handleInput" /\ ~last'.threw /\ ~Paused /\ state = "GAME_OVER"

\* C1: a restart performed in GAME_OVER while not paused, by the restart
\* control or by the primary input, ends in PLAYING with score 0, no obstacles,
\* spawn timer 0, player y = 150, rotation 0, velocity = the jump constant
\* -4.6 (-920 in 1/200 units), overlay and restart control hidden.
C1_RestartFromGameOver ==
    [][(state = "GAME_OVER" /\ ~Paused /\ RestartPerformed) =>
        /\ state' = "PLAYING"
        /\ score' = 0
        /\ pipes' = <<>>
        /\ spawnTimer' = 0
        /\ bird'.y = 150 * 10000
        /\ bird'.rotation = 0
        /\ bird'.velocity = -920
        /\ overlayHidden'
        /\ restartHidden']_vars

\* a restart by the primary input after a game-over that followed a scored point
C1_Witness ==
    /\ last.op = "handleInput" /\ last.from = "GAME_OVER"
    /\ state = "PLAYING" /\ score = 0 /\ pipes = <<>>
    /\ storage = [present |-> TRUE, text |-> <<"1">>]

\* C2: a primary input received while paused changes nothing, in every game
\* state: not the state, score, best score, player, obstacles, spawn timer,
\* audio context or the pending frame callbacks.
C2_PausedInputIgnored ==
    [][(Paused /\ last'.op = "handleInput") =>
        UNCHANGED <<state, frames, score, bestScore, storage, bird, pipes,
                    spawnTimer, bgOffsets, audioCtx, activeSounds,
                    overlayHidden, restartHidden, loopPending, drawPending>>]_vars

\* an input arrived in GAME_OVER while the tab was hidden and the audio
\* context suspended
C2_Witness ==
    /\ last.op = "handleInput" /\ last.from = "GAME_OVER"
    /\ ~isTabActive /\ state = "GAME_OVER" /\ audioCtx = "suspended"

ReducedNoOverride == prefersReducedMotion /\ ~motionOverride

\* C3: with reduced motion active at initialization and no override, no
\* game-loop callback is ever queued and no update ever runs, and visibility
\* changes, resizes and primary inputs leave the state READY with score 0.
C3_ReducedMotionNeverRuns ==
    /\ [](ReducedNoOverride =>
            /\ loopPending = 0
            /\ ~last.updated /\ played = 0 /\ frames = 0
            /\ score = 0)
    /\ [][(ReducedNoOverride' /\ state = "READY"
           /\ last'.op \in {"visibilityChange", "resize", "handleInput",
                            "drawCallback", "gameLoop"}) =>
            state' = "READY"]_vars

\* reduced motion, tab hidden and shown again, resized, then an input
C3_Witness ==
    /\ ReducedNoOverride /\ isTabActive
    /\ last.op = "handleInput" /\ state = "READY"
    /\ sinceLastTime = LongGap /\ drawPending > 0

Max(a, b) == IF a >= b THEN a ELSE b
Min(a, b) == IF a <= b THEN a ELSE b

\* a step in which update() ended the session
GameOverStep == last'.op = "gameLoop" /\ state = "PLAYING" /\ state' = "GAME_OVER"

\* C4: after every game-over the best score is the larger of the best score
\* just before it and the session score at the game-over.
C4_BestIsMax ==
    [][GameOverStep =>
        /\ ~bestScore.nan /\ ~bestScore'.nan
        /\ bestScore'.n = Max(bestScore.n, score')]_vars

\* the stored text holds no digit at all
NoDigits(t) == \A i \in 1..Len(t) : ~IsDigit(t[i])
AbsentOrUnparseable(st) == ~st.present \/ NoDigits(st.text)

\* C5: an absent or unparseable persisted value gives an in-memory best score
\* of 0 at initialization, so that the first later game-over with a score
\* s > 0 sets the best score, in memory and persisted, to s.
C5_MalformedBestIsZero ==
    /\ []((last.op = "init" /\ AbsentOrUnparseable(storage)) => bestScore = Num(0))
    /\ [][(GameOverStep /\ AbsentOrUnparseable(storage) /\ score' > 0) =>
            /\ bestScore' = Num(score')
            /\ storage'.present /\ parseInt(storage'.text) = Num(score')]_vars

\* C6: the persisted best score is written only inside a game-over whose
\* session score strictly exceeds the current best, with that score; the
\* persisted value grows and equals the in-memory best after the write; no
\* other operation writes it.
C6_PersistedWrites ==
    [][storage' # storage =>
        /\ GameOverStep
        /\ ~bestScore.nan /\ score' > bestScore.n
        /\ storage'.present /\ parseInt(storage'.text) = Num(score')
        /\ bestScore' = Num(score')
        /\ LET old == parseInt(getItemOrZero(storage))
           IN  ~old.nan /\ old.n < score']_vars

\* a game-over with score 1 wrote "1"
C6_Witness ==
    /\ last.op = "gameLoop" /\ last.from = "PLAYING" /\ state = "GAME_OVER"
    /\ score = 1 /\ storage = [present |-> TRUE, text |-> <<"1">>]
    /\ bestScore = Num(1)

PassedIds(ps) == {ps[i].id : i \in {k \in DOMAIN ps : ps[k].passed}}

\* C7: the score changes only inside an update in PLAYING, by +1 for each
\* obstacle the update marks passed, or in a reset/restart, which sets it to
\* exactly 0; it never decreases otherwise.
C7_ScoreMonotone ==
    [][/\ score' # score =>
            \/ /\ last'.op = "gameLoop" /\ last'.updated /\ state = "PLAYING"
               /\ score' = score + Cardinality(PassedIds(pipes') \ PassedIds(pipes))
               /\ score' > score
            \/ /\ RestartPerformed
               /\ score' = 0
       /\ RestartPerformed => score' = 0]_vars

\* a point was scored in PLAYING
C7_Witness ==
    /\ last.op = "gameLoop" /\ last.from = "PLAYING" /\ state = "PLAYING"
    /\ score = 1 /\ PassedIds(pipes) # {}

\* C8: an obstacle's passed flag is true exactly from the first update after
\* which its trailing edge (x + 52) is left of the player's x (50); it never
\* reverts, and each obstacle that turns passed adds exactly 1 to the score.
C8_PassedOnce ==
    /\ [](\A i \in DOMAIN pipes :
            pipes[i].passed <=> pipes[i].x + 52 * 25 < 50 * 25)
    /\ [][\A i \in DOMAIN pipes, j \in DOMAIN pipes' :
            (pipes[i].id = pipes'[j].id /\ pipes[i].passed) => pipes'[j].passed]_vars
    /\ [][last'.op = "gameLoop" =>
            score' - score = Cardinality(PassedIds(pipes') \ PassedIds(pipes))]_vars

\* an obstacle is marked passed, one update after it was marked
C8_Witness ==
    /\ last.op = "gameLoop" /\ last.from = "PLAYING"
    /\ score = 1
    /\ \E i \in DOMAIN pipes : pipes[i].passed /\ pipes[i].x + 52 * 25 < 50 * 25 - 300

\* C9: every spawned obstacle has 50 <= gapTop and gapTop + 130 <=
\* playfieldHeight - 50, for the playfield height at spawn time.
C9_GapWithinMargins ==
    [][spawned' = spawned + 1 =>
        LET p == pipes'[Len(pipes')]
        IN  50 <= p.y /\ p.y + 130 <= canvasH - 50]_vars

\* C10: an update with dt > 100 ms integrates with 16 ms, never the raw value,
\* in velocity, position, rotation, obstacle shift, background offsets and
\* spawn timer; so one update adds at most gravity * 6 (300 in 1/200 units) to
\* the velocity and moves an obstacle at most pipe speed * 6 (300 in 1/25 px).
C10_ClampedStep ==
    [][(last'.op = "gameLoop" /\ last'.updated /\ state = "PLAYING") =>
        LET e == IF last'.dt > 100 THEN 16 ELSE last'.dt
        IN  /\ bird'.velocity = bird.velocity + 3 * e
            /\ bird'.y = bird.y + 3 * bird'.velocity * e
            /\ bird'.rotation = IF bird'.velocity < 0 THEN -625
                                ELSE Min(2250, bird.rotation + 3 * e)
            /\ bgOffsets' = [clouds |-> bgOffsets.clouds + 36 * e,
                             hills  |-> bgOffsets.hills + 60 * e,
                             trees  |-> bgOffsets.trees + 96 * e,
                             ground |-> bgOffsets.ground + 120 * e]
            /\ spawnTimer' = IF spawnTimer + e > 1800 THEN 0 ELSE spawnTimer + e
            /\ \A i \in DOMAIN pipes, j \in DOMAIN pipes' :
                 pipes[i].id = pipes'[j].id =>
                    /\ pipes'[j].x = pipes[i].x - 3 * e
                    /\ pipes[i].x - pipes'[j].x <= 300
            /\ bird'.velocity - bird.velocity <= 300]_vars

\* an update with dt = 120 ran while an obstacle was on the playfield
C10_Witness ==
    /\ last.op = "gameLoop" /\ last.from = "PLAYING" /\ last.dt = 120
    /\ \E i \in DOMAIN pipes : pipes[i].x < canvasW * 25 - 300

\* an update() ran in state PLAYING in this step
PlayingTick == last'.op = "gameLoop" /\ last'.updated /\ state = "PLAYING"

\* the hitbox (radius 15 shrunk by 4) has its bottom edge at or below the floor
FloorReached(b, h) == b.y + (15 - 4) * 10000 >= h * 10000

\* C11: a PLAYING tick in which the shrunk hitbox reaches the floor ends in
\* GAME_OVER with the overlay and the restart control visible; every tick in
\* GAME_OVER leaves the player, the obstacles, the score, the spawn timer and
\* the background offsets unchanged, and the state GAME_OVER.
C11_FloorEndsSession ==
    /\ [][(PlayingTick /\ FloorReached(bird', canvasH)) =>
            /\ state' = "GAME_OVER"
            /\ ~overlayHidden' /\ ~restartHidden']_vars
    /\ [][(state = "GAME_OVER" /\ last'.op = "gameLoop") =>
            /\ state' = "GAME_OVER"
            /\ UNCHANGED <<bird, pipes, score, spawnTimer, bgOffsets>>]_vars

\* a tick ran in GAME_OVER after the player had reached the floor with an
\* obstacle on the playfield
C11_Witness ==
    /\ last.op = "gameLoop" /\ last.from = "GAME_OVER" /\ last.updated
    /\ state = "GAME_OVER" /\ FloorReached(bird, canvasH)
    /\ pipes # <<>> /\ ~restartHidden

\* C12: the state starts as READY and is always READY, PLAYING or GAME_OVER;
\* it changes only READY -> PLAYING, PLAYING -> GAME_OVER (inside an update
\* tick) and GAME_OVER -> PLAYING; READY is never entered again.
C12_StateMachine ==
    /\ [](state \in {"READY", "PLAYING", "GAME_OVER"})
    /\ [](last.op = "init" => state = "READY")
    /\ [][state' # state =>
            \/ state = "READY" /\ state' = "PLAYING"
            \/ state = "PLAYING" /\ state' = "GAME_OVER" /\ PlayingTick
            \/ state = "GAME_OVER" /\ state' = "PLAYING"]_vars
    /\ [][state # "READY" => state' # "READY"]_vars

\* the restart control brought a finished session back to PLAYING
C12_Witness ==
    /\ last.op = "restartClick" /\ last.from = "GAME_OVER"
    /\ state = "PLAYING" /\ played > 0

\* C13: a primary input in READY while not paused changes the state to
\* PLAYING and leaves the player's velocity, position and rotation, the score,
\* the obstacles and the spawn timer unchanged.
C13_StartWithoutImpulse ==
    [][(state = "READY" /\ ~Paused /\ last'.op = "handleInput") =>
        /\ state' = "PLAYING"
        /\ UNCHANGED <<bird, score, pipes, spawnTimer>>]_vars

\* C14: a primary input in PLAYING while not paused sets the velocity to the
\* jump constant -4.6 (-920 in 1/200 units) whatever it was, and leaves the
\* state, the player's position, the score, the obstacles and the spawn timer
\* unchanged.
C14_JumpOverrides ==
    [][(state = "PLAYING" /\ ~Paused /\ last'.op = "handleInput") =>
        /\ bird'.velocity = -920
        /\ bird'.y = bird.y
        /\ UNCHANGED <<state, score, pipes, spawnTimer>>]_vars

\* a jump while the player was falling, after a tick had moved it
C14_Witness ==
    /\ last.op = "handleInput" /\ last.from = "PLAYING"
    /\ state = "PLAYING" /\ bird.velocity = -920
    /\ played > 0 /\ bird.y > 150 * 10000

\* C15: when the audio context cannot be created at a primary input, the
\* input still has its game effect (READY -> PLAYING, the jump, or the
\* restart), and no later update is cut short by the missing sound.
C15_AudioFailureHarmless ==
    /\ [][(last'.op = "handleInput" /\ ~Paused /\ audioCtx = "null"
           /\ ~audioAvailable) =>
            \/ state = "READY" /\ state' = "PLAYING"
            \/ state = "PLAYING" /\ state' = "PLAYING" /\ bird'.velocity = -920
            \/ state = "GAME_OVER" /\ state' = "PLAYING" /\ score' = 0]_vars
    /\ [][last'.op = "gameLoop" => ~last'.threw]_vars

\* C16: activating the restart control while paused changes nothing, in every
\* game state.
C16_PausedRestartIgnored ==
    [][(Paused /\ last'.op = "restartClick") =>
        UNCHANGED <<state, frames, score, bestScore, storage, bird, pipes,
                    spawnTimer, bgOffsets, audioCtx, activeSounds,
                    overlayHidden, restartHidden, loopPending, drawPending>>]_vars

\* C17: shouldPause() is true exactly when the tab is not visible, or the
\* system reduced-motion preference is active now and has not been overridden.
C17_PausedTracksPreference ==
    shouldPause <=> (~isTabActive \/ (reducedMotionMatches /\ ~motionOverride))

\* the player's box shrunk by 4 on every side: edges in 1/10000 px (y) and
\* 1/25 px (x)
BoxTop(b) == b.y - (15 - 4) * 10000
BoxBottom(b) == b.y + (15 - 4) * 10000
BoxLeft == (50 - 15 + 4) * 25
BoxRight == (50 + 15 - 4) * 25

BoxOverlaps(p) == BoxRight > p.x /\ BoxLeft < p.x + 52 * 25
BoxOutsideGap(b, p) ==
    BoxTop(b) < p.y * 10000 \/ BoxBottom(b) > (p.y + 130) * 10000

\* the collision conditions of section 4.4
BoxHits(b, ps, h) ==
    \/ BoxBottom(b) >= h * 10000
    \/ BoxTop(b) <= 0
    \/ \E i \in DOMAIN ps : BoxOverlaps(ps[i]) /\ BoxOutsideGap(b, ps[i])

\* C18: a tick that starts in PLAYING ends in GAME_OVER exactly when, after
\* the player and the obstacles have been advanced, the shrunk box is at or
\* below the floor, at or above y = 0, or overlaps an active obstacle
\* horizontally while outside its gap (gap top .. gap top + 130); so after a
\* tick that leaves the state PLAYING none of these holds.
C18_CollisionExact ==
    /\ [][PlayingTick =>
            (state' = "GAME_OVER" <=> BoxHits(bird', pipes', canvasH))]_vars
    /\ []((last.op = "gameLoop" /\ last.updated /\ state = "PLAYING") =>
            ~BoxHits(bird, pipes, canvasH))

\* a session ended on the lower half of an obstacle, above the floor
C18_Witness ==
    /\ last.op = "gameLoop" /\ last.from = "PLAYING" /\ state = "GAME_OVER"
    /\ BoxBottom(bird) < canvasH * 10000 /\ BoxTop(bird) > 0
    /\ \E i \in DOMAIN pipes :
          /\ BoxOverlaps(pipes[i])
          /\ BoxBottom(bird) > (pipes[i].y + 130) * 10000
          /\ BoxTop(bird) >= pipes[i].y * 10000

\* C19: an obstacle spawned in a tick is still right of the player's hitbox
\* when that tick checks collisions, so it never ends the session in the tick
\* that spawned it, whatever the dt and the playfield size.
C19_FreshObstacleHarmless ==
    [][(PlayingTick /\ spawned' = spawned + 1) =>
        \A i \in DOMAIN pipes' :
            pipes'[i].id = spawned' =>
                /\ pipes'[i].x >= BoxRight
                /\ ~(BoxOverlaps(pipes'[i]) /\ BoxOutsideGap(bird', pipes'[i]))]_vars

\* C20: the spawn timer grows by the clamped dt in PLAYING ticks only; a tick
\* spawns exactly when the timer after accumulation exceeds 1800 ms, at most
\* one obstacle, placed at the playfield width (then advanced with the
\* others) with passed = false, and the timer restarts at 0; so the timer
\* stays within 0 .. 1800.
C20_SpawnTimer ==
    /\ [](0 <= spawnTimer /\ spawnTimer <= 1800)
    /\ [][PlayingTick =>
            LET e == IF last'.dt > 100 THEN 16 ELSE last'.dt
                t == spawnTimer + e
            IN  /\ spawned' \in {spawned, spawned + 1}
                /\ spawned' = spawned + 1 <=> t > 1800
                /\ spawnTimer' = IF t > 1800 THEN 0 ELSE t
                /\ t > 1800 =>
                     \E i \in DOMAIN pipes' :
                        /\ pipes'[i].id = spawned'
                        /\ pipes'[i].x = canvasW * 25 - 3 * e
                        /\ ~pipes'[i].passed
                /\ Len(pipes') <= Len(pipes) + 1]_vars
    /\ [][(last'.op = "gameLoop" /\ ~PlayingTick) =>
            UNCHANGED <<spawnTimer, spawned, pipes>>]_vars

\* a tick found the timer at 1800 + 100 and spawned an obstacle
C20_Witness ==
    /\ last.op = "gameLoop" /\ last.from = "PLAYING" /\ last.dt = 100
    /\ spawnTimer = 0 /\ spawned = 1 /\ played = 19
    /\ \E i \in DOMAIN pipes : pipes[i].id = 1 /\ pipes[i].x = canvasW * 25 - 300

----------------------------------------------------------------------------
\* the advance of an obstacle in a tick of last'.dt ms, in 1/25 px:
\* 2 px * (dt / 16.667), the dt replaced by 16 when it exceeds 100
PipeAdvance == 3 * (IF last'.dt > 100 THEN 16 ELSE last'.dt)

\* the obstacle of pipes with the identity id is still in pipes'
Survives(id) == \E j \in 1..Len(pipes') : pipes'[j].id = id

\* the trailing edge (x + 52 px) is right of -10 px, in 1/25 px
TrailingEdgeInside(x) == x + 52 * 25 > -10 * 25

\* C21: in every PLAYING tick each active obstacle's x decreases by pipe
\* speed * scaler, and the tick removes an obstacle exactly when its trailing
\* edge (x + 52) is <= -10 after advancing; every active obstacle has its
\* trailing edge > -10, and obstacles are removed otherwise only by a reset.
C21_AdvanceAndCull ==
    /\ [][PlayingTick =>
            \A i \in 1..Len(pipes) :
                /\ Survives(pipes[i].id) <=>
                       TrailingEdgeInside(pipes[i].x - PipeAdvance)
                /\ \A j \in 1..Len(pipes') :
                       pipes'[j].id = pipes[i].id =>
                           pipes'[j].x = pipes[i].x - PipeAdvance]_vars
    /\ [](\A i \in 1..Len(pipes) : TrailingEdgeInside(pipes[i].x))
    /\ [][(\E i \in 1..Len(pipes) : ~Survives(pipes[i].id)) =>
            PlayingTick \/ (RestartPerformed /\ pipes' = <<>>)]_vars

\* the first obstacle has been passed and a later PLAYING tick has removed it
C21_Witness ==
    /\ last.op = "gameLoop" /\ last.from = "PLAYING" /\ state = "PLAYING"
    /\ score = 1 /\ spawned >= 1
    /\ \A i \in 1..Len(pipes) : pipes[i].id # 1

----------------------------------------------------------------------------
\* the game state that update() writes
gameState == <<state, frames, score, bestScore, bird, pipes, spawnTimer, bgOffsets>>

\* C22: every game-loop invocation that finds the system not paused performs
\* one update, then one draw, then requests one next frame (the number of
\* queued callbacks is the same after it as before); an invocation that finds
\* the system paused performs no update and no draw and requests no frame
\* (one queued callback fewer).
C22_LoopPass ==
    [][last'.op = "gameLoop" =>
          IF Paused
          THEN /\ ~last'.updated /\ ~last'.drew
               /\ loopPending' = loopPending - 1
               /\ UNCHANGED gameState
          ELSE /\ last'.updated /\ last'.drew /\ ~last'.threw
               /\ loopPending' = loopPending]_vars

\* after PLAYING ticks, an invocation has found the system paused and the
\* loop has stopped
C22_Witness ==
    /\ last.op = "gameLoop" /\ ~last.updated /\ ~last.drew
    /\ played > 0 /\ loopPending = 0

----------------------------------------------------------------------------
\* a resume handler has just left the system not paused, within the horizon
Resumed ==
    /\ last.op \in {"visibilityChange", "enableMotion"} /\ ~Paused
    /\ played < MaxResumePlayed /\ frames < MaxReadyFrames

\* the handler that ran last was a game-loop invocation that ran update()
TickRan == last.op = "gameLoop" /\ last.updated

\* C23: whenever the system becomes not paused (the tab becomes visible with
\* reduced motion off or overridden, or the override is activated while the
\* tab is visible) an update tick eventually runs unless the system is paused
\* again first; while the system is not paused a frame callback is always
\* queued, and in PLAYING every tick is followed by another one for as long
\* as the system stays not paused -- queued callbacks being eventually
\* delivered.
C23_ResumeRuns ==
    /\ [](~Paused => loopPending > 0)
    /\ Resumed ~> (TickRan \/ Paused)
    /\ \A k \in 0..(MaxResumePlayed - 1) :
          (state = "PLAYING" /\ ~Paused /\ played = k) ~> (played > k \/ Paused)

\* the tab has come back during play, after ticks and a hidden interval, and
\* the loop has been requested again
C23_Witness ==
    /\ last.op = "visibilityChange" /\ isTabActive /\ ~Paused
    /\ state = "PLAYING" /\ played > 0 /\ played < MaxResumePlayed
    /\ loopPending = 1

----------------------------------------------------------------------------
\* a handler has just resumed the loop: the tab became visible with motion
\* allowed, or the motion override was activated
ResumeStep ==
    \/ last'.op = "visibilityChange" /\ isTabActive' /\ ~Paused'
    \/ last'.op = "enableMotion"

\* a handler has just hidden the tab
HideStep == last'.op = "visibilityChange" /\ ~isTabActive'

\* C24: the resume handler resamples the time baseline (no time has elapsed
\* since the baseline when it returns); afterwards the baseline goes stale
\* only by hiding the tab, which pauses the system until the next resume; so
\* an update tick that follows a resume or another tick is given one frame
\* interval, never an elapsed time that includes the hidden or paused
\* interval (LongGap), and it resamples the baseline itself.
C24_FreshBaseline ==
    /\ [][ResumeStep => sinceLastTime' = 0]_vars
    /\ [][(sinceLastTime = 0 /\ sinceLastTime' # 0) => HideStep /\ Paused']_vars
    /\ [][(last'.op = "gameLoop" /\ last'.updated) =>
            /\ last'.dt - sinceLastTime \in FrameDts
            /\ sinceLastTime = 0 => last'.dt < LongGap
            /\ sinceLastTime' = 0]_vars
    /\ [][(last'.op = "gameLoop" /\ last'.updated /\ sinceLastTime # 0) =>
            last.op \in {"init", "handleInput"} /\ played = 0 /\ frames = 0]_vars

\* on a page loaded under reduced motion the override has been activated long
\* after the load, and the first update tick ever has been given one frame
\* interval
C24_Witness ==
    /\ last.op = "gameLoop" /\ last.updated /\ last.dt \in FrameDts
    /\ prefersReducedMotion /\ motionOverride
    /\ frames = 1 /\ played = 0

----------------------------------------------------------------------------
\* the surface has the size of the rectangle, 320 x 480 standing in for zeros
SurfaceIs(rect) ==
    /\ canvasW' = (IF rect[1] = 0 THEN 320 ELSE rect[1])
    /\ canvasH' = (IF rect[2] = 0 THEN 480 ELSE rect[2])

\* C25: a window resize while the loop is paused sets the surface dimensions
\* from the canvas rectangle and schedules exactly one draw; it runs no
\* update, queues no game-loop callback, and leaves state, score, best score,
\* player, obstacles, spawn timer and background offsets unchanged; the
\* scheduled draw, when it runs, draws once and changes none of them either.
C25_PausedResize ==
    /\ [][(last'.op = "resize" /\ Paused) =>
            /\ \E rect \in RectSizes : SurfaceIs(rect)
            /\ drawPending' = drawPending + 1
            /\ loopPending' = loopPending
            /\ ~last'.updated
            /\ UNCHANGED <<state, score, bestScore, bird, pipes, spawnTimer,
                           bgOffsets>>]_vars
    /\ [][(last'.op = "drawCallback" /\ Paused) =>
            /\ last'.drew /\ ~last'.updated
            /\ drawPending' = drawPending - 1
            /\ loopPending' = loopPending
            /\ UNCHANGED <<state, score, bestScore, bird, pipes, spawnTimer,
                           bgOffsets, canvasW, canvasH>>]_vars

\* the window has been resized during play while the tab was hidden, and one
\* draw is queued
C25_Witness ==
    /\ last.op = "resize" /\ ~isTabActive
    /\ state = "PLAYING" /\ played > 0
    /\ drawPending = 1 /\ canvasH = 170

----------------------------------------------------------------------------
Layers == {"clouds", "hills", "trees", "ground"}

\* C26: each of the four background offsets strictly increases in every
\* PLAYING tick (every tick has dt > 0) and is left unchanged by every other
\* step: ticks in READY or GAME_OVER, input actions, restarts, resizes, theme
\* changes; so no offset ever decreases.
C26_OffsetsMonotone ==
    /\ [][IF PlayingTick
          THEN last'.dt > 0 /\ \A l \in Layers : bgOffsets'[l] > bgOffsets[l]
          ELSE bgOffsets' = bgOffsets]_vars
    /\ [][\A l \in Layers : bgOffsets'[l] >= bgOffsets[l]]_vars

\* a restart from GAME_OVER has kept the offsets the session had accumulated
C26_Witness ==
    /\ last.op \in {"handleInput", "restartClick"} /\ last.from = "GAME_OVER"
    /\ state = "PLAYING" /\ score = 0
    /\ \A l \in Layers : bgOffsets[l] > 0

----------------------------------------------------------------------------
\* the advance of a background layer in a step, in 1/1000 px
LayerAdvance(l) == bgOffsets'[l] - bgOffsets[l]

\* the advances, in 1/1000 px, of the obstacles that a step keeps
ObstacleAdvances ==
    {(pipes[i].x - pipes'[j].x) * 40 :
        <<i, j>> \in {ij \in (1..Len(pipes)) \X (1..Len(pipes')) :
                         pipes[ij[1]].id = pipes'[ij[2]].id}}

LayersOrdered ==
    /\ LayerAdvance("clouds") < LayerAdvance("hills")
    /\ LayerAdvance("hills") < LayerAdvance("trees")
    /\ LayerAdvance("trees") < LayerAdvance("ground")

\* C27 as stated: in every PLAYING tick the advances are strictly ordered
\* clouds < hills < trees < ground and every layer, ground included,
\* advances strictly less than the obstacles do. The ground advances exactly
\* as far as the obstacles, so this fails in every tick that keeps an obstacle.
C27_Original ==
    [][PlayingTick =>
          /\ LayersOrdered
          /\ \A l \in Layers : \A a \in ObstacleAdvances :
                LayerAdvance(l) < a]_vars

\* C27: in every PLAYING tick (dt > 0) the advances are strictly ordered
\* clouds < hills < trees < ground; clouds, hills and trees advance strictly
\* less than the obstacles do in the same tick, and the ground advances
\* exactly as far as the obstacles.
C27_ParallaxOrder ==
    [][PlayingTick =>
          /\ last'.dt > 0
          /\ LayersOrdered
          /\ \A a \in ObstacleAdvances :
                /\ \A l \in Layers \ {"ground"} : LayerAdvance(l) < a
                /\ LayerAdvance("ground") = a]_vars

\* a PLAYING tick has moved the background and an obstacle that has been in
\* play for several ticks
C27_Witness ==
    /\ last.op = "gameLoop" /\ last.from = "PLAYING" /\ last.updated
    /\ Len(pipes) > 0 /\ pipes[1].x < (canvasW - 20) * 25
    /\ bgOffsets.clouds > 0

----------------------------------------------------------------------------
\* the obstacles that a step marks as passed
NewlyPassed ==
    {pipes'[j].id : j \in {k \in 1..Len(pipes') :
        /\ pipes'[k].passed
        /\ \A i \in 1..Len(pipes) : pipes[i].id = pipes'[k].id => ~pipes[i].passed}}

\* C28: in every reachable state 0 <= activeSounds <= 3, and every started
\* sound has exactly one pending timer; an obstacle passed while
\* activeSounds = 3 starts no sound (no timer is set and the counter stays)
\* yet the score is incremented and the obstacle marked, while below the cap
\* it starts one; the counter goes down only by a timer callback, by exactly
\* one, not before 100 ms of frames have elapsed since the sound was started,
\* and each timer runs once.
C28_SoundCap ==
    /\ [](activeSounds \in 0..3 /\ Len(soundTimers) = activeSounds)
    /\ [][(PlayingTick /\ NewlyPassed # {}) =>
            /\ score' = score + Cardinality(NewlyPassed)
            /\ IF activeSounds = 3
               THEN activeSounds' = 3 /\ \A k \in 1..3 : soundTimers'[k] > 0
               ELSE /\ activeSounds' = activeSounds + 1
                    /\ soundTimers'[Len(soundTimers')] = 0]_vars
    /\ [][activeSounds' > activeSounds => PlayingTick /\ NewlyPassed # {}]_vars
    /\ [][activeSounds' < activeSounds =>
            /\ last'.op = "soundTimeout"
            /\ activeSounds' = activeSounds - 1
            /\ Head(soundTimers) >= 100
            /\ soundTimers' = Tail(soundTimers)]_vars

\* the fourth obstacle has been passed and scored while three sounds were
\* still counted
C28_Witness ==
    /\ last.op = "gameLoop" /\ last.from = "PLAYING"
    /\ score = 4 /\ activeSounds = 3
    /\ \E i \in 1..Len(pipes) : pipes[i].id = 4 /\ pipes[i].passed

----------------------------------------------------------------------------
\* C29: the READY bobbing is purely cosmetic: at the READY -> PLAYING
\* transition the player's simulation state equals the fixed initial values
\* (y = 150, velocity 0, rotation 0) however many READY ticks preceded the
\* first input. The bobbing writes the player's y itself and the transition
\* does not reset it, so this fails after one READY tick.
C29_BobbingCosmetic ==
    [][(state = "READY" /\ state' = "PLAYING") =>
          bird' = [y |-> 150 * 10000, velocity |-> 0, rotation |-> 0]]_vars

----------------------------------------------------------------------------
\* the theme that the system color scheme asks for
SystemTheme == IF darkModeQuery THEN "dark" ELSE "light"

\* C30: the current theme is the one of the system color scheme and the
\* renderer's palette is the current theme's; every draw uses that palette
\* and draws clouds exactly when the theme is light, moon and stars exactly
\* when it is dark; a color-scheme change switches theme and palette at once,
\* so the next draw shows it, and changes no game state.
C30_ThemeAtDraw ==
    /\ [](currentTheme = SystemTheme /\ colors = currentTheme)
    /\ [][last'.drew =>
            /\ last'.palette = SystemTheme'
            /\ last'.clouds <=> SystemTheme' = "light"
            /\ last'.moonStars <=> SystemTheme' = "dark"]_vars
    /\ [][last'.op = "colorSchemeChange" =>
            /\ darkModeQuery' # darkModeQuery
            /\ ~last'.updated /\ ~last'.drew
            /\ UNCHANGED <<state, frames, score, bestScore, bird, pipes,
                           spawnTimer, bgOffsets, loopPending, drawPending>>]_vars

\* during play, after a point was scored, a frame has been drawn with the
\* dark palette, moon and stars
C30_Witness ==
    /\ last.op = "gameLoop" /\ last.drew /\ last.from = "PLAYING"
    /\ last.palette = "dark" /\ last.moonStars /\ ~last.clouds
    /\ score >= 1

----------------------------------------------------------------------------
\* C31: at most one game-loop frame callback is pending at any time, under
\* every interleaving of ticks, visibility changes, override activations and
\* initialization. A callback still queued when the tab is hidden is not
\* cancelled, and the handler that runs when the tab is shown again requests
\* another one, so this fails.
C31_SingleLoop == loopPending <= 1

----------------------------------------------------------------------------
\* the box touches neither the floor nor the ceiling
BoxInBounds(b, h) == BoxBottom(b) < h * 10000 /\ BoxTop(b) > 0

\* C32: once an obstacle has been marked passed it never causes a game-over:
\* no tick ends the session on an obstacle that is marked passed when the
\* collision is tested, in the tick that marks it or later. The mark is given
\* when the trailing edge is left of the player's centre (x + 52 < 50) while
\* the box still overlaps it until the edge is left of 39, so this fails.
C32_PassedHarmless ==
    [][(GameOverStep /\ BoxInBounds(bird', canvasH)) =>
          \A i \in DOMAIN pipes' :
              pipes'[i].passed =>
                  ~(BoxOverlaps(pipes'[i]) /\ BoxOutsideGap(bird', pipes'[i]))]_vars

----------------------------------------------------------------------------
\* the identities of the obstacles in a collection
Ids(ps) == {ps[i].id : i \in DOMAIN ps}

\* the obstacles spawned since the last reset
SpawnedSinceReset == (spawnedAtReset + 1)..spawned

\* C33: every obstacle that a tick removes by culling was already marked
\* passed, and an obstacle spawned since the last reset that is no longer
\* active was marked passed before it left; so at every moment the score
\* equals the number of obstacles spawned since the last reset that have
\* been marked passed (those still active and marked, and those culled).
C33_NoneUnscored ==
    /\ [][PlayingTick =>
            \A i \in DOMAIN pipes :
                ~Survives(pipes[i].id) => pipes[i].passed]_vars
    /\ [](Ids(pipes) \subseteq SpawnedSinceReset)
    /\ [](score = Cardinality(PassedIds(pipes))
                  + Cardinality(SpawnedSinceReset \ Ids(pipes)))

\* the first obstacle has been culled and the second is active and marked:
\* the score counts both
C33_Witness ==
    /\ state = "PLAYING" /\ spawnedAtReset = 0 /\ spawned = 2
    /\ Ids(pipes) = {2} /\ PassedIds(pipes) = {2}
    /\ score = 2

----------------------------------------------------------------------------
\* C34: whenever a score sound is attempted (a tick marks an obstacle
\* passed) the audio context has already been created: every step that
\* enters PLAYING -- the primary input in READY, the primary input in
\* GAME_OVER, the restart control -- ends with a context, so no state other
\* than READY is without one; no game-loop invocation ends by an exception,
\* and a tick that marks an obstacle runs to its end (it draws and requests
\* the next frame).
C34_ContextBeforeSound ==
    /\ [](state # "READY" => audioCtx # "null")
    /\ [][(state # "PLAYING" /\ state' = "PLAYING") =>
            /\ audioCtx' # "null"
            /\ \/ last'.op = "handleInput" /\ state \in {"READY", "GAME_OVER"}
               \/ last'.op = "restartClick" /\ state = "GAME_OVER"]_vars
    /\ [][last'.op = "gameLoop" => ~last'.threw]_vars
    /\ [][(PlayingTick /\ NewlyPassed # {}) =>
            /\ audioCtx # "null"
            /\ last'.drew /\ loopPending' = loopPending]_vars

\* in a session entered by a restart an obstacle has been marked passed and
\* the tick has run to its end
C34_Witness ==
    /\ last.op = "gameLoop" /\ last.from = "PLAYING" /\ last.drew
    /\ spawnedAtReset > 0 /\ score = 1 /\ bestScore = Num(4)
    /\ audioCtx = "running" /\ loopPending = 1

----------------------------------------------------------------------------
\* a handler that ends with stopAutoplay() has just run
StopStep ==
    \/ last'.op = "mouseenter"
    \/ last'.op = "carouselVisibilityChange" /\ documentHidden'

\* C35: in the carousel at most one autoplay interval timer is active at any
\* time, under every interleaving of visibility changes, mouseenter and
\* mouseleave, and after stopAutoplay no autoplay timer remains active.
\* startAutoplay() overwrites the stored timer id without clearing the timer
\* it named, so this fails.
C35_SingleAutoplay ==
    /\ [](Cardinality(activeIntervals) <= 1)
    /\ [][StopStep => activeIntervals' = {}]_vars
====
